---- MODULE Spec2Model ----
(***************************************************************************)
(* Role-based access control of the wiki backend: the admin forms of       *)
(* src/web/admin.py (users, roles, category permission overrides) and the  *)
(* permission evaluation they and the API views rely on.                   *)
(***************************************************************************)
EXTENDS Naturals, FiniteSets, Sequences, Bags, TLC

\* ------------------------------------------------------------------ bounds
NumUsers == 2
NumCategories == 2
NumSessions == 2

\* --------------------------------------------------------------- universes
Users == 1..NumUsers
\* request.user of an unauthenticated request
Anonymous == 0
Principals == Users \cup {Anonymous}
Categories == 1..NumCategories
Sessions == 1..NumSessions
\* obj=None of a user admin permission check, and no scope category
NoUser == 0
NoCategory == 0
\* obj=None of a role admin permission check
NoRole == "none"

\* Role rows by identity; "E" and "R" start as the two default roles.
RoleIds == {"E", "R", "A", "B"}
Slugs == {"everyone", "registered", "a", "b"}
ProtectedSlugs == {"everyone", "registered"}
\* The permission codenames of the role content type.
Registry == {"view_articles", "create_articles", "edit_articles",
             "delete_articles", "reset_article_votes", "manage_article_files",
             "view_forum_threads", "manage_roles", "move_articles",
             "tag_articles", "lock_articles", "manage_article_authors"}
\* A codename no migration registered.
UnknownCodename == "no_such_permission"

MaxRank == Cardinality(RoleIds) - 1
Ranks == 0..MaxRank

VARIABLES
    roleSet,        \* ids of the Role rows that exist
    slug,           \* Role.slug
    index,          \* Role.index, the rank (lower = more privileged)
    permissions,    \* Role.permissions, the globally allowed codenames
    restrictions,   \* Role.restrictions, the globally denied codenames
    userRoles,      \* User.roles, the explicit assignments
    isSuperuser,    \* User.is_superuser
    isActive,       \* User.is_active
    staff,          \* users holding the admin site's model-level permissions
    overrides,      \* Category.permissions_override: per category a bag of rows
    form,           \* per admin session: the bound CategoryForm, or idle
    posted,         \* request.POST of the latest user change form
    article,        \* the Article row the article API requests are about
    upload,         \* per session: the file upload request it is serving
    files,          \* the File rows, as the sizes they record
    disk,           \* per session: what the media path of its upload holds
    signup,         \* per session: the invitation POST it is serving
    usedTokens,     \* the UsedToken rows
    account,        \* the invited User row
    loggedIn,       \* per session: request.user is not anonymous
    last            \* what the most recent operation was and how it ended

vars == <<roleSet, slug, index, permissions, restrictions, userRoles,
          isSuperuser, isActive, staff, overrides, form, posted, article,
          upload, files, disk, signup, usedTokens, account, loggedIn, last>>

roleVars == <<roleSet, slug, index, permissions, restrictions>>
userVars == <<userRoles, isSuperuser, isActive, staff>>
overrideVars == <<overrides, form>>
\* What the admin of roles and categories and the content requests leave alone.
fileVars == <<upload, files, disk>>
inviteVars == <<signup, usedTokens, account, loggedIn>>
siteVars == <<posted, article, fileVars, inviteVars>>

\* ------------------------------------------------------------------ helpers
Min(S) == CHOOSE x \in S : \A y \in S : x <= y

RolesWithSlug(s) == {r \in roleSet : slug[r] = s}

AllRoles == roleSet

\* Role.objects.exclude(slug__in=['everyone', 'registered'])
AssignableRoles == {r \in roleSet : slug[r] \notin ProtectedSlugs}

\* InviteForm.roles: the same exclusion
InviteRoleChoices == {r \in roleSet : slug[r] \notin ProtectedSlugs}

\* --------------------------------------------------- permission evaluation
\* The rank given to a principal without any ranked role.
Sentinel == MaxRank + 1

\* User.operation_index
operation_index(u) ==
    IF u = Anonymous \/ userRoles[u] = {}
    THEN Sentinel
    ELSE Min({index[r] : r \in userRoles[u]})

\* Step 1: explicit roles, everyone, and registered once authenticated.
EffectiveRoles(p) ==
    (IF p = Anonymous THEN {} ELSE userRoles[p] \cup RolesWithSlug("registered"))
        \cup RolesWithSlug("everyone")

\* The override rows category c holds for role r.
OverrideRows(r, c) ==
    IF c = NoCategory THEN {}
    ELSE {o \in BagToSet(overrides[c]) : o.role = r}

MergedAllowed(r, c) ==
    UNION {o.allow : o \in OverrideRows(r, c)} \cup permissions[r]

\* Step 2: a role's effective allowed / denied set for one evaluation.
EffectiveAllowed(r, c) ==
    IF OverrideRows(r, c) # {}
    THEN UNION {o.allow : o \in OverrideRows(r, c)}
    ELSE permissions[r]

EffectiveDenied(r, c) ==
    IF OverrideRows(r, c) # {}
    THEN UNION {o.deny : o \in OverrideRows(r, c)}
    ELSE restrictions[r]

\* Step 3: deny overrides allow, and no rule means no.
AllowOverridesDeny(p, cap, c) ==
    /\ cap \in Registry
    /\ \E r \in EffectiveRoles(p) : cap \in EffectiveAllowed(r, c)

AllowUnlessDenied(p, cap, c) ==
    /\ cap \in Registry
    /\ ~ \E r \in EffectiveRoles(p) : cap \in EffectiveDenied(r, c)

UnknownFallsThrough(p, cap, c) ==
    /\ ~ \E r \in EffectiveRoles(p) : cap \in EffectiveDenied(r, c)
    /\ \/ cap \notin Registry
       \/ \E r \in EffectiveRoles(p) : cap \in EffectiveAllowed(r, c)

HasPermission(p, cap, c) ==
    /\ cap \in Registry
    /\ ~ \E r \in EffectiveRoles(p) : cap \in EffectiveDenied(r, c)
    /\ \E r \in EffectiveRoles(p) : cap \in EffectiveAllowed(r, c)

\* ----------------------------------------------------------- user admin
\* ModelAdmin.has_change_permission, which the overrides fall through to:
\* the admin site's model-level permission of the requesting user.
BaseModelPermission(actor) == isSuperuser[actor] \/ actor \in staff

UserGuardWithoutEqual(actor, obj) ==
    IF obj # NoUser /\ ~isSuperuser[actor]
         /\ operation_index(obj) < operation_index(actor)
    THEN FALSE
    ELSE BaseModelPermission(actor)

UserGuardReversed(actor, obj) ==
    IF obj # NoUser /\ ~isSuperuser[actor]
         /\ operation_index(actor) <= operation_index(obj)
    THEN FALSE
    ELSE BaseModelPermission(actor)

\* AdvancedUserAdmin.has_change_permission
UserHasChangePermission(actor, obj) ==
    IF obj # NoUser /\ ~isSuperuser[actor]
         /\ operation_index(obj) <= operation_index(actor)
    THEN FALSE
    ELSE BaseModelPermission(actor)

SubmittedIsSuperuser(actor, target, submitted) == submitted

\* AdvancedUserAdmin.get_readonly_fields and save_model: is_superuser
SavedIsSuperuser(actor, target, submitted) ==
    IF ~isSuperuser[actor] THEN isSuperuser[target] ELSE submitted

SubmittedRoles(actor, target, submitted) == submitted

\* AdvancedUserAdmin.formfield_for_manytomany and save_model: roles
SavedRoles(actor, target, submitted) ==
    IF ~HasPermission(actor, "manage_roles", NoCategory)
    THEN userRoles[target]
    ELSE submitted

ActiveOfAllowedEdit(actor, target, submitted) ==
    IF ~isSuperuser[actor] \/ ~HasPermission(actor, "manage_roles", NoCategory)
    THEN isActive[target]
    ELSE submitted

\* AdvancedUserAdmin.save_model: the fields it does not restore, is_active
\* among them, are saved as the form holds them.
SavedActive(actor, target, submitted) == submitted

\* The fields of the posted user form whose submitted value is not the one
\* the save stores.
DiscardedFields(actor, target, subRoles, subSuper) ==
    {f \in {"is_superuser"} : SavedIsSuperuser(actor, target, subSuper) # subSuper}
        \cup {f \in {"roles"} : SavedRoles(actor, target, subRoles) # subRoles}

\* An admin posts the change form of an existing user.
UserChange(actor, target, subRoles, subSuper, subActive) ==
    /\ subRoles \subseteq AssignableRoles
    /\ IF UserHasChangePermission(actor, target)
       THEN /\ isSuperuser' = [isSuperuser EXCEPT
                    ![target] = SavedIsSuperuser(actor, target, subSuper)]
            /\ isActive' = [isActive EXCEPT
                    ![target] = SavedActive(actor, target, subActive)]
            /\ userRoles' = [userRoles EXCEPT
                    ![target] = SavedRoles(actor, target, subRoles)]
            /\ last' = [op |-> "user_change", actor |-> actor,
                        target |-> target, ok |-> TRUE,
                        discarded |->
                            DiscardedFields(actor, target, subRoles, subSuper)]
       ELSE /\ UNCHANGED <<isSuperuser, userRoles, isActive>>
            /\ last' = [op |-> "user_change", actor |-> actor,
                        target |-> target, ok |-> FALSE, discarded |-> {}]
    /\ UNCHANGED <<roleVars, staff, overrideVars, article, fileVars,
                   inviteVars>>

\* A staff member posts the invite form for the account of target: the roles
\* of the valid form become the account's roles.
Invite(actor, target, roles) ==
    /\ BaseModelPermission(actor)
    /\ roles \subseteq InviteRoleChoices
    /\ userRoles[target] = {} /\ ~isSuperuser[target]
    /\ userRoles' = [userRoles EXCEPT ![target] = roles]
    /\ last' = [op |-> "invite", actor |-> actor, target |-> target, ok |-> TRUE]
    /\ UNCHANGED <<roleVars, isSuperuser, isActive, staff, overrideVars, siteVars>>

\* ----------------------------------------------------------- role admin
RoleGuardRefusingEqual(actor, obj) ==
    IF obj # NoRole /\ ~isSuperuser[actor] /\ index[obj] <= operation_index(actor)
    THEN FALSE
    ELSE BaseModelPermission(actor)

\* RoleAdmin.has_change_permission
RoleHasChangePermission(actor, obj) ==
    IF obj # NoRole /\ ~isSuperuser[actor] /\ index[obj] < operation_index(actor)
    THEN FALSE
    ELSE BaseModelPermission(actor)

RoleDeleteUnprotected(actor, obj) == BaseModelPermission(actor)

\* RoleAdmin.has_delete_permission
RoleHasDeletePermission(actor, obj) ==
    IF obj # NoRole /\ slug[obj] \in ProtectedSlugs
    THEN FALSE
    ELSE BaseModelPermission(actor)

RoleNothingReadonly(obj) == {}

\* RoleAdmin.get_readonly_fields
RoleReadonlyFields(obj) ==
    IF obj # NoRole /\ slug[obj] \in ProtectedSlugs
    THEN {"slug"}
    ELSE {}

\* What the _perms_ field of the role form can hold: nothing, or the two lists.
NoPermsData == [allow |-> {"-"}, deny |-> {"-"}]
PermsInputs == {NoPermsData, [allow |-> {}, deny |-> {"edit_articles"}]}

\* A _perms_ value that names one codename in both lists.
OverlappingPermsData == [allow |-> {"edit_articles"}, deny |-> {"edit_articles"}]
\* The role whose form is posted with it in this model.
OverlapRole == "B"

\* RoleForm.save: the stored permissions / restrictions after the save;
\* Permission.objects.filter(codename__in=...) keeps the known codenames.
SavedRolePermissions(r, perms_data) ==
    IF perms_data = NoPermsData THEN permissions[r]
    ELSE perms_data.allow \cap Registry

SavedRoleRestrictions(r, perms_data) ==
    IF perms_data = NoPermsData THEN restrictions[r]
    ELSE perms_data.deny \cap Registry

\* The slug the form saves: a read-only field keeps the stored value.
SavedSlug(r, submitted) ==
    IF "slug" \in RoleReadonlyFields(r) THEN slug[r] ELSE submitted

\* Role.slug is unique: the form is invalid when another role holds the slug.
SlugTaken(r, s) == \E q \in roleSet \ {r} : slug[q] = s

\* An admin posts the change form of a role.
RoleChange(actor, r, subSlug, perms_data) ==
    /\ r \in roleSet
    /\ IF RoleHasChangePermission(actor, r) /\ ~SlugTaken(r, SavedSlug(r, subSlug))
       THEN /\ slug' = [slug EXCEPT ![r] = SavedSlug(r, subSlug)]
            /\ permissions' = [permissions EXCEPT
                    ![r] = SavedRolePermissions(r, perms_data)]
            /\ restrictions' = [restrictions EXCEPT
                    ![r] = SavedRoleRestrictions(r, perms_data)]
            /\ last' = [op |-> "role_change", actor |-> actor, target |-> r,
                        ok |-> TRUE, subSlug |-> subSlug]
       ELSE /\ UNCHANGED <<slug, permissions, restrictions>>
            /\ last' = [op |-> "role_change", actor |-> actor, target |-> r,
                        ok |-> FALSE, subSlug |-> subSlug]
    /\ UNCHANGED <<roleSet, index, userVars, overrideVars, siteVars>>

\* The rows of bag b that do not belong to role r.
WithoutRole(b, r) ==
    [o \in {x \in BagToSet(b) : x.role # r} |-> b[o]]

\* An admin confirms the delete view of a role; assignments and overrides of
\* the role go with it.
RoleDelete(actor, r) ==
    /\ r \in roleSet
    /\ IF RoleHasDeletePermission(actor, r)
       THEN /\ roleSet' = roleSet \ {r}
            /\ userRoles' = [u \in Users |-> userRoles[u] \ {r}]
            /\ overrides' = [c \in Categories |-> WithoutRole(overrides[c], r)]
            /\ last' = [op |-> "role_delete", actor |-> actor, target |-> r,
                        ok |-> TRUE]
       ELSE /\ UNCHANGED <<roleSet, userRoles, overrides>>
            /\ last' = [op |-> "role_delete", actor |-> actor, target |-> r,
                        ok |-> FALSE]
    /\ UNCHANGED <<slug, index, permissions, restrictions, isSuperuser, isActive, staff, form, siteVars>>

\* ------------------------------------------------------- category admin
\* The roles whose overrides the admin sessions of this model edit.
OverrideRoles == {"E", "B"}

\* What the entry of role r in the _perms_override_ field holds in this model:
\* a grant for the role everyone, a denial for the others.
OverrideInputs(r) ==
    IF slug[r] = "everyone"
    THEN {[allow |-> {"edit_articles"}, deny |-> {}]}
    ELSE {[allow |-> {}, deny |-> {"edit_articles"}]}

\* How many override rows category c holds for role r.
OverrideCount(r, c) ==
    BagCardinality([o \in {x \in BagToSet(overrides[c]) : x.role = r} |->
                        overrides[c][o]])

\* The roles that hold an override row in category c.
OverriddenRoles(c) == {o.role : o \in BagToSet(overrides[c])}

\* CategoryForm.__init__: the choices of the two role lists, and the roles
\* the override widget shows.
AddChoices(c) == roleSet \ OverriddenRoles(c)
RemoveChoices(c) == OverriddenRoles(c)

ValidCategoryForm(c, roles_data, add, remove) ==
    /\ DOMAIN roles_data \subseteq OverriddenRoles(c)
    /\ add \subseteq AddChoices(c)
    /\ remove \subseteq RemoveChoices(c)

\* RolePermissionsOverride.objects.create(role_id=...) with its two sets:
\* Permission.objects.filter(codename__in=...) keeps the known codenames.
OverrideRow(r, allow, deny) ==
    [role |-> r, allow |-> allow \cap Registry, deny |-> deny \cap Registry]

SubmittedRows(roles_data) ==
    SetToBag({OverrideRow(k, roles_data[k].allow, roles_data[k].deny) :
                k \in DOMAIN roles_data})

MergeSubmitted(b, roles_data) ==
    IF DOMAIN roles_data # {} THEN b (+) SubmittedRows(roles_data) ELSE b

ClearThenSubmitted(b, roles_data) == SubmittedRows(roles_data)

\* CategoryForm.save, first block: clear, then one row per submitted role.
AfterSubmitted(b, roles_data) ==
    IF DOMAIN roles_data # {} THEN SubmittedRows(roles_data) ELSE b

\* CategoryForm.save, second block: a fresh empty row per added role.
AfterAdded(b, add) ==
    IF add # {} THEN b (+) SetToBag({OverrideRow(r, {}, {}) : r \in add}) ELSE b

\* CategoryForm.save, third block: the rows of the removed roles go.
AfterRemoved(b, remove) ==
    IF remove # {}
    THEN [o \in {x \in BagToSet(b) : x.role \notin remove} |-> b[o]]
    ELSE b

SavedRemovingFirst(b, roles_data, add, remove) ==
    AfterAdded(AfterSubmitted(AfterRemoved(b, remove), roles_data), add)

\* CategoryForm.save
SavedOverrides(b, roles_data, add, remove) ==
    AfterRemoved(AfterAdded(AfterSubmitted(b, roles_data), add), remove)

\* A POST of the category change form reaches the admin: the form is built
\* and validated against the overrides stored now.
CategoryBind(s, c, roles_data, add, remove) ==
    /\ form[s].pc = "idle"
    /\ \E actor \in Users : BaseModelPermission(actor)
    /\ ValidCategoryForm(c, roles_data, add, remove)
    /\ form' = [form EXCEPT ![s] = [pc |-> "valid", cat |-> c,
                    roles_data |-> roles_data, add |-> add, remove |-> remove]]
    /\ last' = [op |-> "category_bind", session |-> s]
    /\ UNCHANGED <<roleVars, userVars, overrides, siteVars>>

\* The valid form is saved.
CategorySave(s) ==
    /\ form[s].pc = "valid"
    /\ overrides' = [overrides EXCEPT ![form[s].cat] =
            SavedOverrides(overrides[form[s].cat], form[s].roles_data,
                           form[s].add, form[s].remove)]
    /\ form' = [form EXCEPT ![s] = [pc |-> "idle"]]
    /\ last' = [op |-> "category_save", session |-> s]
    /\ UNCHANGED <<roleVars, userVars, siteVars>>

\* The whole request of one admin when no other session is at work: the form
\* is built, validated and saved.
CategoryPost(c, roles_data, add, remove) ==
    /\ \E actor \in Users : BaseModelPermission(actor)
    /\ ValidCategoryForm(c, roles_data, add, remove)
    /\ overrides' = [overrides EXCEPT ![c] =
            SavedOverrides(overrides[c], roles_data, add, remove)]
    /\ last' = [op |-> "category_post", cat |-> c, roles_data |-> roles_data,
                add |-> add, remove |-> remove,
                hadBefore |-> OverriddenRoles(c)]
    /\ UNCHANGED <<roleVars, userVars, form, siteVars>>

\* ------------------------------------------- category admin, by statement
\* The rows of a set as created by request n: the row identity the database
\* gives them.
Stamp(rows, n) ==
    {[role |-> o.role, allow |-> o.allow, deny |-> o.deny, by |-> n] : o \in rows}

\* The rows of bag b without their identity, as a bag.
Unstamped(b) ==
    LET content(o) == OverrideRow(o.role, o.allow, o.deny)
    IN  [x \in {content(o) : o \in BagToSet(b)} |->
            Cardinality({o \in BagToSet(b) : content(o) = x})]

\* The store after the deletes and inserts of a transaction are applied.
Applied(b, del, ins) == SetToBag((BagToSet(b) \ del) \cup ins)

PublishedAtOnce(b, del, ins) == Applied(b, del, ins)

\* What other requests see of the store after a statement of the change
\* view: the view runs in one transaction, so nothing before its commit.
Published(b, del, ins) == b

\* The rows of the category the request of session s sees: the committed
\* ones it has not deleted and its own.
TxView(s) == (BagToSet(overrides[form[s].cat]) \ form[s].del) \cup form[s].ins

\* CategoryForm.save, instance.permissions_override.all().delete()
TxClear(s) ==
    /\ form[s].pc = "valid"
    /\ LET del == IF DOMAIN form[s].roles_data # {}
                  THEN BagToSet(overrides[form[s].cat]) ELSE {}
       IN  /\ form' = [form EXCEPT ![s] =
                    [pc |-> "cleared", cat |-> form[s].cat,
                     roles_data |-> form[s].roles_data, add |-> form[s].add,
                     remove |-> form[s].remove, del |-> del, ins |-> {}]]
           /\ overrides' = [overrides EXCEPT ![form[s].cat] = Published(@, del, {})]
    /\ last' = [op |-> "tx_statement"]
    /\ UNCHANGED <<roleVars, userVars, siteVars>>

\* CategoryForm.save, the loop that creates one row per submitted role and
\* attaches the rows to the category
TxCreate(s) ==
    /\ form[s].pc = "cleared"
    /\ LET ins == IF DOMAIN form[s].roles_data # {}
                  THEN Stamp(BagToSet(SubmittedRows(form[s].roles_data)), s)
                  ELSE {}
       IN  /\ form' = [form EXCEPT ![s].pc = "created", ![s].ins = ins]
           /\ overrides' = [overrides EXCEPT ![form[s].cat] =
                    Published(@, form[s].del, ins)]
    /\ last' = [op |-> "tx_statement"]
    /\ UNCHANGED <<roleVars, userVars, siteVars>>

\* CategoryForm.save, the add list and the remove list
TxLists(s) ==
    /\ form[s].pc = "created"
    /\ LET added == form[s].ins \cup
                        Stamp({OverrideRow(r, {}, {}) : r \in form[s].add}, s)
           gone == {o \in TxView(s) \cup added : o.role \in form[s].remove}
           del == form[s].del \cup (gone \ added)
           ins == added \ gone
       IN  /\ form' = [form EXCEPT ![s].pc = "listed", ![s].del = del,
                                    ![s].ins = ins]
           /\ overrides' = [overrides EXCEPT ![form[s].cat] = Published(@, del, ins)]
    /\ last' = [op |-> "tx_statement"]
    /\ UNCHANGED <<roleVars, userVars, siteVars>>

\* The change view returns and its transaction commits.
TxCommit(s) ==
    /\ form[s].pc = "listed"
    /\ overrides' = [overrides EXCEPT ![form[s].cat] =
            Applied(@, form[s].del, form[s].ins)]
    /\ form' = [form EXCEPT ![s].pc = "done"]
    /\ last' = [op |-> "tx_commit", session |-> s]
    /\ UNCHANGED <<roleVars, userVars, siteVars>>

\* A request asks whether principal p has capability cap, scoped to c or not.
Evaluate(p, cap, c) ==
    /\ last' = [op |-> "has_perm", principal |-> p, cap |-> cap, cat |-> c,
                result |-> HasPermission(p, cap, c)]
    /\ UNCHANGED <<roleVars, userVars, overrideVars, siteVars>>

CheckUserGuardStoringRoles(actor, obj) ==
    /\ last' = [op |-> "can_manage_user", actor |-> actor, target |-> obj,
                result |-> UserHasChangePermission(actor, obj)]
    /\ userRoles' = [u \in Users |->
            IF u = obj THEN userRoles[u] \cup RolesWithSlug("registered")
            ELSE userRoles[u]]
    /\ UNCHANGED <<roleVars, isSuperuser, isActive, staff, overrideVars, siteVars>>

\* The admin asks whether the requesting user may change user obj (the change
\* form is opened, or the change list is shown when obj is absent).
CheckUserGuard(actor, obj) ==
    /\ last' = [op |-> "can_manage_user", actor |-> actor, target |-> obj,
                result |-> UserHasChangePermission(actor, obj)]
    /\ UNCHANGED <<roleVars, userVars, overrideVars, siteVars>>

\* The admin asks whether the requesting user may change role obj.
CheckRoleGuard(actor, obj) ==
    /\ last' = [op |-> "can_manage_role", actor |-> actor, target |-> obj,
                result |-> RoleHasChangePermission(actor, obj)]
    /\ UNCHANGED <<roleVars, userVars, overrideVars, siteVars>>

\* ---------------------------------------------------------- content views
\* The guarded requests of the article, file and notification API.
ArticleOps == {"article_create", "article_delete", "version_revert", "votes_reset"}
FileOps == {"file_upload", "file_rename", "file_delete"}
ArticleNotificationOps == {"subscribe_article", "unsubscribe_article"}
ThreadNotificationOps == {"subscribe_thread", "unsubscribe_thread"}
ContentOps == ArticleOps \cup FileOps \cup ArticleNotificationOps
                \cup ThreadNotificationOps

\* The scope has_perm gets: the category of the article, none for a thread.
ScopeOf(op, c) == IF op \in ThreadNotificationOps THEN NoCategory ELSE c

Response(status, performed) == [status |-> status, performed |-> performed]

\* The page does not exist: forbidden without view_articles, else not found.
MissingArticle(p, c) ==
    IF ~HasPermission(p, "view_articles", c) THEN 403 ELSE 404

\* CreateView.post
CreateArticle(p, c, exists, valid) ==
    IF ~valid THEN Response(400, FALSE)
    ELSE IF ~HasPermission(p, "create_articles", c) THEN Response(403, FALSE)
    ELSE IF exists THEN Response(409, FALSE)
    ELSE Response(201, TRUE)

\* FetchOrUpdateView.delete
DeleteArticle(p, c, exists) ==
    IF ~exists THEN Response(MissingArticle(p, c), FALSE)
    ELSE IF ~HasPermission(p, "delete_articles", c) THEN Response(403, FALSE)
    ELSE Response(200, TRUE)

\* FetchOrRevertLogView.put; valid: revNumber is an integer
RevertVersion(p, c, exists, valid) ==
    IF ~exists THEN Response(MissingArticle(p, c), FALSE)
    ELSE IF ~HasPermission(p, "edit_articles", c) THEN Response(403, FALSE)
    ELSE IF ~valid THEN Response(400, FALSE)
    ELSE Response(200, TRUE)

\* FetchOrUpdateVotesView.delete; it answers with its own get, which asks for
\* view_articles again; valid: the rating module answers
ResetVotes(p, c, exists, valid) ==
    IF ~exists THEN Response(MissingArticle(p, c), FALSE)
    ELSE IF ~HasPermission(p, "reset_article_votes", c) THEN Response(403, FALSE)
    ELSE IF ~HasPermission(p, "view_articles", c) THEN Response(403, TRUE)
    ELSE IF ~valid THEN Response(500, TRUE)
    ELSE Response(200, TRUE)

ValidateFileRequestUnguarded(p, c, exists, edit) ==
    IF ~exists THEN MissingArticle(p, c) ELSE 200

\* FileView._validate_request: 200 stands for the article it returns
ValidateFileRequest(p, c, exists, edit) ==
    IF ~exists THEN MissingArticle(p, c)
    ELSE IF edit /\ ~HasPermission(p, "manage_article_files", c) THEN 403
    ELSE 200

\* GetOrUploadView.post, RenameOrDeleteView.put and .delete; valid: the file
\* name is given and free
ChangeFile(p, op, c, exists, valid) ==
    IF ValidateFileRequest(p, c, exists, TRUE) # 200
    THEN Response(ValidateFileRequest(p, c, exists, TRUE), FALSE)
    ELSE IF op # "file_delete" /\ ~valid THEN Response(400, FALSE)
    ELSE Response(200, TRUE)

\* notifications.subscribe_to_notifications / unsubscribe_from_notifications:
\* a subscription exists only for an article or thread that exists.
ControllerSubscribes(exists) == exists

\* NotificationsSubscribeView.post and .delete; valid: pageId or
\* forumThreadId is given
ChangeSubscription(p, op, c, exists, valid) ==
    LET cap == IF op \in ThreadNotificationOps
               THEN "view_forum_threads" ELSE "view_articles"
        failed == IF op \in {"subscribe_article", "subscribe_thread"}
                  THEN 400 ELSE 404
    IN  IF ~valid THEN Response(400, FALSE)
        ELSE IF exists /\ ~HasPermission(p, cap, ScopeOf(op, c))
             THEN Response(403, FALSE)
        ELSE IF ControllerSubscribes(exists) THEN Response(200, TRUE)
        ELSE Response(failed, FALSE)

ContentResponse(p, op, c, exists, valid) ==
    CASE op = "article_create" -> CreateArticle(p, c, exists, valid)
      [] op = "article_delete" -> DeleteArticle(p, c, exists)
      [] op = "version_revert" -> RevertVersion(p, c, exists, valid)
      [] op = "votes_reset" -> ResetVotes(p, c, exists, valid)
      [] op \in FileOps -> ChangeFile(p, op, c, exists, valid)
      [] OTHER -> ChangeSubscription(p, op, c, exists, valid)

\* A content request of principal p reaches its view.
ContentRequest(p, op, c, exists, valid) ==
    /\ last' = [op |-> "content", kind |-> op, principal |-> p,
                cat |-> ScopeOf(op, c), exists |-> exists, valid |-> valid,
                status |-> ContentResponse(p, op, c, exists, valid).status,
                performed |-> ContentResponse(p, op, c, exists, valid).performed]
    /\ UNCHANGED <<roleVars, userVars, overrideVars, siteVars>>

\* ------------------------------------------------------------ initial data
NoOverrides == [c \in Categories |-> EmptyBag]
IdleForms == [s \in Sessions |-> [pc |-> "idle"]]
NoOp == [op |-> "none", actor |-> Anonymous, target |-> NoUser, ok |-> FALSE]

\* No user change form has been posted.
NoPost == [roles |-> {}, is_superuser |-> FALSE, is_active |-> FALSE]

\* The fields of an article that FetchOrUpdateView.put can set, besides its
\* name.
Fields == {"title", "source", "tags", "parent", "locked", "authors"}

\* The value every request submits for a field it carries; a stored field
\* holds it or the other value.
NewValue == 1
FieldValues == {0, NewValue}

\* The article as created: in the first category, no field holding the value
\* the requests submit.
InstalledArticle ==
    [cat |-> CHOOSE c \in Categories : TRUE, name |-> 0,
     vals |-> [f \in Fields |-> 0]]

\* ------------------------------------------------------- uploads, invitations
\* settings.MEDIA_UPLOAD_LIMIT and settings.ABSOLUTE_MEDIA_UPLOAD_LIMIT, counted
\* in chunks of the size request.read is asked for.
MEDIA_UPLOAD_LIMIT == 2
ABSOLUTE_MEDIA_UPLOAD_LIMIT == 3

\* len(chunk): a full chunk, or nothing once the body is read.
ChunkLengths == {0, 1}

\* The x-file-name header: missing, or one of two names.
NoName == ""
FileNames == {"f1", "f2"}

\* What a media path holds: nothing, or a file of so many chunks. The File
\* row that is there before any request has media 0, no session's.
NoFile == {}
MediaFile(size) == {size}
StoredFile == [media |-> 0, name |-> "f1", size |-> 1]


\* The tokens a link can carry: the one the invitation mail holds, and one
\* nobody issued.
Tokens == {"invite", "forged"}

\* request.POST['username']: one the pattern refuses, one another user holds,
\* and two free ones; a Wikidot account brings its own, "wd".
Usernames == {"bad name", "taken", "n1", "n2"}
Passwords == {"", "p1", "p2"}
UserTypes == {"normal", "wikidot"}

\* The User row the invitation created: no name, no password, not active.
InvitedAccount(type) ==
    [type |-> type, username |-> "", password |-> "", is_active |-> FALSE]

\* No upload request, no invitation request.
HostAtRest ==
    /\ upload = [s \in Sessions |-> [pc |-> "idle"]]
    /\ files = {}
    /\ disk = [s \in Sessions |-> NoFile]
    /\ signup = [s \in Sessions |-> [pc |-> "idle"]]
    /\ usedTokens = {}
    /\ account = InvitedAccount("normal")
    /\ loggedIn = [s \in Sessions |-> FALSE]

\* The stores a specification does not exercise.
AtRest ==
    /\ posted = NoPost
    /\ article = InstalledArticle
    /\ HostAtRest

\* ------------------------------------------------------------ article API
\* A request body the validation refuses.
InvalidData ==
    [valid |-> FALSE, rename |-> FALSE, new_category |-> NoCategory,
     taken |-> FALSE, keys |-> {}]

\* The bodies of the PUT requests: the fields they carry, and for a pageId
\* that differs from the current name what the lookup of the destination
\* category returns (a category, or nothing) and whether another page holds
\* the name already.
PutData ==
    {[valid |-> TRUE, rename |-> FALSE, new_category |-> NoCategory,
      taken |-> FALSE, keys |-> k] : k \in SUBSET Fields}
    \cup {[valid |-> TRUE, rename |-> TRUE, new_category |-> c,
           taken |-> FALSE, keys |-> k] :
                c \in Categories \cup {NoCategory}, k \in SUBSET Fields}
    \cup {[valid |-> TRUE, rename |-> TRUE, new_category |-> c,
           taken |-> TRUE, keys |-> {}] : c \in Categories \cup {NoCategory}}
    \cup {InvalidData}

\* The rename check of FetchOrUpdateView.put: the conditional expression
\* takes the whole disjunction as its first branch.
RenameRefused(p, art, new_category) ==
    IF new_category # NoCategory
    THEN \/ ~HasPermission(p, "move_articles", art.cat)
         \/ ~HasPermission(p, "move_articles", new_category)
    ELSE FALSE

\* Step 1 of FetchOrUpdateView.put; st holds the article as the request has
\* left it so far and the status it ended with, 0 while it runs.
RenameStep(p, st, data) ==
    IF st.status # 0 \/ ~data.rename THEN st
    ELSE IF RenameRefused(p, st.art, data.new_category)
         THEN [st EXCEPT !.status = 403]
    ELSE IF data.taken THEN [st EXCEPT !.status = 409]
    ELSE [st EXCEPT !.art.cat = data.new_category,
                    !.art.name = 1 - st.art.name]

\* One of the steps 2 to 7: nothing when the request ended or the step does
\* not apply, 403 when it is not allowed, else the field is written.
FieldStep(st, field, applies, allowed) ==
    IF st.status # 0 \/ ~applies THEN st
    ELSE IF ~allowed THEN [st EXCEPT !.status = 403]
    ELSE [st EXCEPT !.art.vals[field] = NewValue]

\* FetchOrUpdateView.put on an article that exists: the article it leaves
\* and the status it answers with.
PutOutcome(p, art, data) ==
    LET can_edit_articles == HasPermission(p, "edit_articles", art.cat)
        s0 == [art |-> art, status |-> IF data.valid THEN 0 ELSE 400]
        s1 == RenameStep(p, s0, data)
        s2 == FieldStep(s1, "title",
                  "title" \in data.keys /\ s1.art.vals["title"] # NewValue,
                  can_edit_articles)
        s3 == FieldStep(s2, "source",
                  "source" \in data.keys /\ s2.art.vals["source"] # NewValue,
                  can_edit_articles)
        s4 == FieldStep(s3, "tags", "tags" \in data.keys,
                  HasPermission(p, "tag_articles", s3.art.cat))
        s5 == FieldStep(s4, "parent", "parent" \in data.keys, can_edit_articles)
        s6 == FieldStep(s5, "locked",
                  "locked" \in data.keys /\ s5.art.vals["locked"] # NewValue,
                  HasPermission(p, "lock_articles", s5.art.cat))
        s7 == FieldStep(s6, "authors", "authors" \in data.keys,
                  /\ can_edit_articles
                  /\ HasPermission(p, "manage_article_authors", s6.art.cat))
    IN  [art |-> s7.art, status |-> IF s7.status = 0 THEN 200 ELSE s7.status]

\* A PUT of principal p reaches FetchOrUpdateView: for the article when
\* exists, else for a page name of category c that no article holds. A 200
\* carries the rendered article.
ArticlePut(p, exists, c, data) ==
    LET named == IF exists THEN article.cat ELSE c
        out == IF exists THEN PutOutcome(p, article, data)
               ELSE [art |-> article, status |-> MissingArticle(p, c)]
    IN  /\ article' = out.art
        /\ last' = [op |-> "article_put", principal |-> p, cat |-> named,
                    exists |-> exists, data |-> data, status |-> out.status,
                    body |-> out.status = 200]
        /\ UNCHANGED <<roleVars, userVars, overrideVars, posted,
                    fileVars, inviteVars>>

\* FetchOrUpdateView.get
GetStatus(p, exists, c) ==
    IF ~HasPermission(p, "view_articles", c) THEN 403
    ELSE IF ~exists THEN 404
    ELSE 200

\* A GET of principal p reaches FetchOrUpdateView.
ArticleGet(p, exists, c) ==
    LET named == IF exists THEN article.cat ELSE c
    IN  /\ last' = [op |-> "article_get", principal |-> p, cat |-> named,
                    exists |-> exists, data |-> InvalidData,
                    status |-> GetStatus(p, exists, named),
                    body |-> GetStatus(p, exists, named) = 200]
        /\ UNCHANGED <<roleVars, userVars, overrideVars, siteVars>>

\* ------------------------------------------------------------- file upload
RECURSIVE SumOfSizes(_)
SumOfSizes(rows) ==
    IF rows = {} THEN 0
    ELSE LET f == CHOOSE x \in rows : TRUE
         IN  f.size + SumOfSizes(rows \ {f})

\* articles.get_file_space_usage(): the space counted against the soft and
\* against the hard limit. No File row is deleted here, so both count every
\* row.
get_file_space_usage == [current |-> SumOfSizes(files),
                         absolute |-> SumOfSizes(files)]

\* The test of the read loop after size chunks were read.
OverLimit(current_files_size, absolute_files_size, size) ==
    \/ /\ MEDIA_UPLOAD_LIMIT > 0
       /\ current_files_size + size > MEDIA_UPLOAD_LIMIT
    \/ /\ ABSOLUTE_MEDIA_UPLOAD_LIMIT > 0
       /\ absolute_files_size + size > ABSOLUTE_MEDIA_UPLOAD_LIMIT

\* How GetOrUploadView.post ends before it reads the body; 0 when it goes on.
UploadRefusal(p, exists, file_name) ==
    IF ~exists THEN MissingArticle(p, article.cat)
    ELSE IF ~HasPermission(p, "manage_article_files", article.cat) THEN 403
    ELSE IF file_name = NoName THEN 400
    ELSE IF \E f \in files : f.name = file_name THEN 409
    ELSE 0

UploadLog(s, status) == [op |-> "upload", session |-> s, status |-> status]

\* GetOrUploadView.post up to the first read: the request is validated, the
\* space in use is looked up once, the media file is opened for writing.
UploadStart(s, p, exists, file_name) ==
    /\ upload[s].pc = "idle"
    /\ IF UploadRefusal(p, exists, file_name) # 0
       THEN /\ last' = UploadLog(s, UploadRefusal(p, exists, file_name))
            /\ UNCHANGED fileVars
       ELSE /\ upload' = [upload EXCEPT ![s] =
                            [pc |-> "reading", name |-> file_name, size |-> 0,
                             current_files_size |-> get_file_space_usage.current,
                             absolute_files_size |-> get_file_space_usage.absolute]]
            /\ disk' = [disk EXCEPT ![s] = MediaFile(0)]
            /\ last' = UploadLog(s, 0)
            /\ UNCHANGED files
    /\ UNCHANGED <<roleVars, userVars, overrideVars, posted, article, inviteVars>>

\* One turn of the read loop. Over a limit the handler raises 413 and the
\* except clause unlinks the media file; at the end of the body the File row
\* is saved with the size read; else the chunk is written.
UploadChunk(s, len) ==
    /\ upload[s].pc = "reading"
    /\ LET size == upload[s].size + len
       IN  IF OverLimit(upload[s].current_files_size,
                        upload[s].absolute_files_size, size)
           THEN /\ disk' = [disk EXCEPT ![s] = NoFile]
                /\ upload' = [upload EXCEPT ![s] = [pc |-> "done", status |-> 413]]
                /\ last' = UploadLog(s, 413)
                /\ UNCHANGED files
           ELSE IF len = 0
           THEN /\ files' = files \cup {[media |-> s, name |-> upload[s].name,
                                         size |-> size]}
                /\ upload' = [upload EXCEPT ![s] = [pc |-> "done", status |-> 200]]
                /\ last' = UploadLog(s, 200)
                /\ UNCHANGED disk
           ELSE /\ disk' = [disk EXCEPT ![s] = MediaFile(size)]
                /\ upload' = [upload EXCEPT ![s].size = size]
                /\ last' = UploadLog(s, 0)
                /\ UNCHANGED files
    /\ UNCHANGED <<roleVars, userVars, overrideVars, posted, article, inviteVars>>

\* ------------------------------------------------------ invitation sign-up
\* UsedToken.is_used(token).
is_used(token) == token \in usedTokens

\* What account_activation_token.check_token(user, token) can answer: no for
\* a token nobody issued, yes for the invitation's token while the account is
\* as the invitation left it. The generator is not part of these views;
\* whether its hash covers a field that activation changes is open, so
\* afterwards it can answer either way.
check_token(token) ==
    IF token # "invite" THEN {FALSE}
    ELSE IF account.is_active THEN BOOLEAN
    ELSE {TRUE}

\* re.match(r"^[\w.-]+\Z", username, re.ASCII)
ValidUsername(username) == username \notin {"", "bad name"}

\* A User row other than the invited one holds the name.
UsernameTaken(username) == username = "taken"

\* The name the POST goes on with: a Wikidot account keeps its own.
PostedUsername(username) ==
    IF account.type = "wikidot" THEN "wd" ELSE username

\* How AcceptInvitationView.post ends before it touches the User row;
\* "accepted" when it goes on.
SignupRefusal(token, checked, username, password1, password2) ==
    IF is_used(token) \/ ~checked THEN "invalid_link"
    ELSE IF ~ValidUsername(PostedUsername(username)) THEN "bad_username"
    ELSE IF UsernameTaken(PostedUsername(username)) THEN "username_taken"
    ELSE IF password1 = "" THEN "no_password"
    ELSE IF password1 # password2 THEN "password_mismatch"
    ELSE "accepted"

InviteLog(op, s, token, result) ==
    [op |-> op, session |-> s, token |-> token, result |-> result]

\* AcceptInvitationView.get.
InviteGet(s, token, checked) ==
    /\ checked \in check_token(token)
    /\ last' = InviteLog("invite_get", s, token,
                  IF loggedIn[s] THEN "redirect"
                  ELSE IF is_used(token) \/ ~checked THEN "invalid_link"
                  ELSE "form")
    /\ UNCHANGED <<roleVars, userVars, overrideVars, posted, article,
                   fileVars, inviteVars>>

\* AcceptInvitationView.post up to user.save(): the token and the form are
\* checked and the new name and password are put on the loaded User object.
InvitePost(s, token, checked, username, password1, password2) ==
    /\ signup[s].pc = "idle"
    /\ checked \in check_token(token)
    /\ LET result == SignupRefusal(token, checked, username, password1, password2)
       IN  /\ last' = InviteLog("invite_post", s, token, result)
           /\ signup' = IF result = "accepted"
                        THEN [signup EXCEPT ![s] =
                                [pc |-> "validated", token |-> token,
                                 username |-> PostedUsername(username),
                                 password |-> password1]]
                        ELSE signup
    /\ UNCHANGED <<roleVars, userVars, overrideVars, posted, article,
                   fileVars, usedTokens, account, loggedIn>>

\* user.save(): the loaded object is written over the row.
InviteSave(s) ==
    /\ signup[s].pc = "validated"
    /\ account' = [type |-> "normal", username |-> signup[s].username,
                   password |-> signup[s].password, is_active |-> TRUE]
    /\ signup' = [signup EXCEPT ![s].pc = "saved"]
    /\ last' = InviteLog("invite_post", s, signup[s].token, "saved")
    /\ UNCHANGED <<roleVars, userVars, overrideVars, posted, article,
                   fileVars, usedTokens, loggedIn>>

\* UsedToken.mark_used, login and the redirect that ends the POST.
InviteMarkUsed(s) ==
    /\ signup[s].pc = "saved"
    /\ usedTokens' = usedTokens \cup {signup[s].token}
    /\ loggedIn' = [loggedIn EXCEPT ![s] = TRUE]
    /\ signup' = [signup EXCEPT ![s] = [pc |-> "idle"]]
    /\ last' = InviteLog("invite_post", s, signup[s].token, "redirect")
    /\ UNCHANGED <<roleVars, userVars, overrideVars, posted, article,
                   fileVars, account>>

DefaultSlug == [r \in RoleIds |->
    CASE r = "E" -> "everyone" [] r = "R" -> "registered"
      [] r = "A" -> "a" [] OTHER -> "b"]

\* adminsortable2 keeps Role.index a strict order.
RankOrders == {f \in [RoleIds -> Ranks] : \A r, q \in RoleIds : r # q => f[r] # f[q]}

\* The site as installed: everyone reads, registered users create, B edits
\* articles and their files, A also deletes, resets votes and manages roles.
DefaultPermissions == [r \in RoleIds |->
    CASE r = "A" -> {"manage_roles", "edit_articles", "delete_articles",
                     "reset_article_votes", "manage_article_files"}
      [] r = "B" -> {"edit_articles", "manage_article_files"}
      [] r = "R" -> {"create_articles"}
      [] OTHER -> {"view_articles", "view_forum_threads"}]
DefaultRestrictions == [r \in RoleIds |->
    CASE r = "E" -> {"delete_articles"} [] OTHER -> {}]

InitUsers ==
    /\ roleSet = RoleIds
    /\ slug = DefaultSlug
    /\ index \in {f \in RankOrders : f["A"] = 0 /\ f["E"] < f["R"]}
    /\ permissions = DefaultPermissions
    /\ restrictions = DefaultRestrictions
    /\ userRoles = [u \in Users |-> IF u = 1 THEN {"A"} ELSE {}]
    /\ isSuperuser = [u \in Users |-> u = 1]
    /\ isActive = [u \in Users |-> TRUE]
    /\ staff \in {Users, Users \ {NumUsers}}
    /\ overrides = NoOverrides
    /\ form = IdleForms
    /\ last = NoOp
    /\ AtRest

NextUsers ==
    \/ \E actor \in Users, target \in Users, subRoles \in SUBSET AssignableRoles,
          subSuper \in BOOLEAN :
            \* the form is posted with is_active as stored
            /\ UserChange(actor, target, subRoles, subSuper, isActive[target])
            /\ UNCHANGED posted
    \/ \E actor \in Users, target \in Users, roles \in SUBSET InviteRoleChoices :
            Invite(actor, target, roles)

\* Administration of users.
Spec == InitUsers /\ [][NextUsers]_vars

InitRoles ==
    /\ roleSet = RoleIds
    /\ slug = DefaultSlug
    /\ index \in {f \in RankOrders : f["A"] < f["B"] /\ f["B"] < f["R"] /\ f["E"] < f["R"]}
    /\ permissions = DefaultPermissions
    /\ restrictions = DefaultRestrictions
    /\ userRoles \in {f \in [Users -> {{}, {"A"}, {"B"}}] :
                        \A u \in Users : (u = 1) <=> (f[u] = {})}
    /\ isSuperuser = [u \in Users |-> u = 1]
    /\ isActive = [u \in Users |-> TRUE]
    /\ staff \in {Users, Users \ {NumUsers}}
    /\ overrides = NoOverrides
    /\ form = IdleForms
    /\ last = NoOp
    /\ AtRest

NextRoles ==
    \/ \E actor \in Users, r \in RoleIds, subSlug \in Slugs, perms_data \in PermsInputs :
          RoleChange(actor, r, subSlug, perms_data)
    \/ \E actor \in Users, r \in RoleIds : RoleDelete(actor, r)
    \/ \E actor \in Users :
          /\ OverlapRole \in roleSet
          /\ RoleChange(actor, OverlapRole, slug[OverlapRole], OverlappingPermsData)

\* The role selections the posted forms carry: none, or one role.
PostedRoles == {{}} \cup {{r} : r \in {"A", "B"}}

\* The site after a superuser also let role B manage roles.
DelegatedPermissions ==
    [DefaultPermissions EXCEPT !["B"] = @ \cup {"manage_roles"}]

\* The sites a user form is posted to: every account holds no role or one,
\* any of them may be a superuser, and role B may or may not manage roles.
InitEdit ==
    /\ roleSet = RoleIds
    /\ slug = DefaultSlug
    /\ index = [r \in RoleIds |->
            CASE r = "A" -> 0 [] r = "B" -> 1 [] r = "E" -> 2 [] OTHER -> 3]
    /\ permissions \in {DefaultPermissions, DelegatedPermissions}
    /\ restrictions = DefaultRestrictions
    /\ userRoles \in [Users -> PostedRoles]
    /\ isSuperuser \in [Users -> BOOLEAN]
    /\ isActive = [u \in Users |-> TRUE]
    /\ staff = Users
    /\ overrides = NoOverrides
    /\ form = IdleForms
    /\ posted = NoPost
    /\ article = InstalledArticle
    /\ HostAtRest
    /\ last = NoOp

NextEdit ==
    \E actor \in Users, target \in Users, subRoles \in PostedRoles,
       subSuper \in BOOLEAN, subActive \in BOOLEAN :
        \* one form is followed on each site
        /\ last = NoOp
        /\ UserChange(actor, target, subRoles, subSuper, subActive)
        /\ posted' = [roles |-> subRoles, is_superuser |-> subSuper,
                      is_active |-> subActive]

\* One user change form on each site, with what it posted.
SpecEdit == InitEdit /\ [][NextEdit]_vars

\* Administration of roles.
SpecRoles == InitRoles /\ [][NextRoles]_vars

\* The submissions a category form can carry for the roles in keys.
RolesData(keys) ==
    UNION {{f \in [k -> UNION {OverrideInputs(r) : r \in k}] :
                \A r \in k : f[r] \in OverrideInputs(r)} : k \in SUBSET keys}

InitEngine ==
    /\ roleSet = RoleIds
    /\ slug = DefaultSlug
    /\ index = [r \in RoleIds |->
            CASE r = "A" -> 0 [] r = "B" -> 1 [] r = "E" -> 2 [] OTHER -> 3]
    /\ permissions = DefaultPermissions
    /\ restrictions = DefaultRestrictions
    /\ userRoles = [u \in Users |-> IF u = 1 THEN {"A"} ELSE {"B"}]
    /\ isSuperuser = [u \in Users |-> FALSE]
    /\ isActive = [u \in Users |-> TRUE]
    /\ staff = Users
    /\ overrides = NoOverrides
    /\ form = IdleForms
    /\ last = NoOp
    /\ AtRest

\* The codenames the content views ask for in this model.
EvaluatedCodenames == {"edit_articles", "delete_articles", UnknownCodename}

\* The categories that hold overrides.
OverriddenCategories == {c \in Categories : overrides[c] # EmptyBag}

\* How many categories the admin session gives overrides to.
MaxOverridden == 2

NextEngine ==
    \/ \E c \in Categories :
          /\ Cardinality(OverriddenCategories \cup {c}) <= MaxOverridden
          /\ \E roles_data \in RolesData(OverrideRoles \cap OverriddenRoles(c)),
             add \in SUBSET (OverrideRoles \cap AddChoices(c)),
             remove \in SUBSET (OverrideRoles \cap RemoveChoices(c)) :
                CategoryPost(c, roles_data, add, remove)
    \/ \E p \in Principals, cap \in EvaluatedCodenames,
          c \in Categories \cup {NoCategory} : Evaluate(p, cap, c)

\* One admin session configures overrides; requests evaluate permissions.
SpecEngine == InitEngine /\ [][NextEngine]_vars

NextReads ==
    \/ \E c \in Categories :
          /\ Cardinality(OverriddenCategories \cup {c}) <= MaxOverridden
          /\ \E roles_data \in RolesData(OverrideRoles \cap OverriddenRoles(c)),
             add \in SUBSET (OverrideRoles \cap AddChoices(c)),
             remove \in SUBSET (OverrideRoles \cap RemoveChoices(c)) :
                CategoryPost(c, roles_data, add, remove)
    \/ \E p \in Principals, cap \in EvaluatedCodenames,
          c \in Categories \cup {NoCategory} : Evaluate(p, cap, c)
    \/ \E actor \in Users, obj \in Users \cup {NoUser} : CheckUserGuard(actor, obj)
    \/ \E actor \in Users, obj \in roleSet \cup {NoRole} : CheckRoleGuard(actor, obj)

\* The permission evaluations and the admin guards, asked while an admin
\* session configures overrides.
SpecReads == InitEngine /\ [][NextReads]_vars

\* The category and the role the concurrent sessions contend for.
RaceCategory == CHOOSE c \in Categories : TRUE
RaceRoles == {"B"}

NextRace ==
    \/ \E s \in Sessions :
          \E roles_data \in RolesData(RaceRoles \cap OverriddenRoles(RaceCategory)),
             add \in SUBSET (RaceRoles \cap AddChoices(RaceCategory)),
             remove \in SUBSET (RaceRoles \cap RemoveChoices(RaceCategory)) :
                CategoryBind(s, RaceCategory, roles_data, add, remove)
    \/ \E s \in Sessions : CategorySave(s)

\* Several admin sessions post category forms at once.
SpecRace == InitEngine /\ [][NextRace]_vars

NextContent ==
    \/ \E roles_data \in RolesData(OverrideRoles \cap OverriddenRoles(RaceCategory)),
          add \in SUBSET (OverrideRoles \cap AddChoices(RaceCategory)),
          remove \in SUBSET (OverrideRoles \cap RemoveChoices(RaceCategory)) :
            CategoryPost(RaceCategory, roles_data, add, remove)
    \/ \E p \in Principals, op \in ContentOps, c \in Categories,
          exists \in BOOLEAN, valid \in BOOLEAN :
            ContentRequest(p, op, c, exists, valid)

\* Content requests arrive while an admin configures the overrides of one
\* category.
SpecContent == InitEngine /\ [][NextContent]_vars

\* The overrides the category holds when the concurrent requests arrive.
InstalledOverrides ==
    [c \in Categories |->
        IF c = RaceCategory
        THEN SetToBag(Stamp({OverrideRow("B", {}, {"edit_articles"}),
                             OverrideRow("E", {"edit_articles"}, {})}, 0))
        ELSE EmptyBag]

InitTx ==
    /\ roleSet = RoleIds
    /\ slug = DefaultSlug
    /\ index = [r \in RoleIds |->
            CASE r = "A" -> 0 [] r = "B" -> 1 [] r = "E" -> 2 [] OTHER -> 3]
    /\ permissions = DefaultPermissions
    /\ restrictions = DefaultRestrictions
    /\ userRoles = [u \in Users |-> IF u = 1 THEN {"A"} ELSE {"B"}]
    /\ isSuperuser = [u \in Users |-> FALSE]
    /\ isActive = [u \in Users |-> TRUE]
    /\ staff = Users
    /\ overrides = InstalledOverrides
    /\ form = IdleForms
    /\ last = NoOp
    /\ AtRest

NextTx ==
    \/ \E s \in Sessions :
          \E roles_data \in RolesData(OverrideRoles \cap OverriddenRoles(RaceCategory)),
             remove \in SUBSET (RaceRoles \cap RemoveChoices(RaceCategory)) :
                \* a form either replaces the overrides or removes one
                /\ (DOMAIN roles_data = {}) # (remove = {})
                /\ CategoryBind(s, RaceCategory, roles_data, {}, remove)
    \/ \E s \in Sessions : TxClear(s)
    \/ \E s \in Sessions : TxCreate(s)
    \/ \E s \in Sessions : TxLists(s)
    \/ \E s \in Sessions : TxCommit(s)
    \/ \E p \in Principals : Evaluate(p, "edit_articles", RaceCategory)

\* Each admin session posts one category form; the statements of the saves
\* interleave with each other and with permission evaluations.
SpecTx == InitTx /\ [][NextTx]_vars

\* The site with an editorial staff: role A also moves, tags and locks
\* articles and manages their authors.
EditorialPermissions ==
    [DefaultPermissions EXCEPT !["A"] = @ \cup
        {"move_articles", "tag_articles", "lock_articles",
         "manage_article_authors"}]

\* The first category with an override for the role everyone that allows
\* editing only: there nobody holds view_articles.
HiddenCategoryOverrides ==
    [c \in Categories |->
        IF c = RaceCategory
        THEN SetToBag({OverrideRow("E", {"edit_articles"}, {})})
        ELSE EmptyBag]

\* The requests of the content API whose answer depends on the article
\* being there.
ExistenceOps == {"article_delete", "version_revert", "votes_reset"} \cup FileOps

\* The sites an article request arrives at: the article in any category,
\* some of its fields already holding the submitted value, the first
\* category hidden or not.
InitArticle ==
    /\ roleSet = RoleIds
    /\ slug = DefaultSlug
    /\ index = [r \in RoleIds |->
            CASE r = "A" -> 0 [] r = "B" -> 1 [] r = "E" -> 2 [] OTHER -> 3]
    /\ permissions = EditorialPermissions
    /\ restrictions = DefaultRestrictions
    /\ userRoles = [u \in Users |-> IF u = 1 THEN {"A"} ELSE {"B"}]
    /\ isSuperuser = [u \in Users |-> FALSE]
    /\ isActive = [u \in Users |-> TRUE]
    /\ staff = Users
    /\ overrides \in {NoOverrides, HiddenCategoryOverrides}
    /\ form = IdleForms
    /\ posted = NoPost
    /\ HostAtRest
    /\ article \in {a \in [cat : Categories, name : {0}, vals : [Fields -> FieldValues]] :
                        \A f \in {"tags", "parent", "authors"} : a.vals[f] = 0}
    /\ last = NoOp

NextArticle ==
    \* one request is followed on each site
    /\ last = NoOp
    /\ \/ \E p \in Principals, data \in PutData :
             ArticlePut(p, TRUE, article.cat, data)
       \/ \E p \in Principals, c \in Categories :
             ArticlePut(p, FALSE, c, [InvalidData EXCEPT !.valid = TRUE])
       \/ \E p \in Principals, exists \in BOOLEAN, c \in Categories :
             ArticleGet(p, exists, c)
       \/ \E p \in Principals, op \in ExistenceOps, c \in Categories,
             exists \in BOOLEAN :
                ContentRequest(p, op, c, exists, TRUE)

\* One request of the article API on each site.
SpecArticle == InitArticle /\ [][NextArticle]_vars

\* The site when the uploads arrive: user 1 holds role a, everybody else role
\* b, both roles may manage files; one file is stored or none.
InitUpload ==
    /\ roleSet = RoleIds
    /\ slug = DefaultSlug
    /\ index = [r \in RoleIds |->
            CASE r = "A" -> 0 [] r = "B" -> 1 [] r = "E" -> 2 [] OTHER -> 3]
    /\ permissions = DefaultPermissions
    /\ restrictions = DefaultRestrictions
    /\ userRoles = [u \in Users |-> IF u = 1 THEN {"A"} ELSE {"B"}]
    /\ isSuperuser = [u \in Users |-> FALSE]
    /\ isActive = [u \in Users |-> TRUE]
    /\ staff = Users
    /\ overrides = NoOverrides
    /\ form = IdleForms
    /\ posted = NoPost
    /\ article = InstalledArticle
    /\ upload = [s \in Sessions |-> [pc |-> "idle"]]
    /\ files \in {{}, {StoredFile}}
    /\ disk = [s \in Sessions |-> NoFile]
    /\ signup = [s \in Sessions |-> [pc |-> "idle"]]
    /\ usedTokens = {}
    /\ account = InvitedAccount("normal")
    /\ loggedIn = [s \in Sessions |-> FALSE]
    /\ last = NoOp

NextUpload ==
    \/ \E s \in Sessions, p \in Principals, exists \in BOOLEAN,
          file_name \in FileNames \cup {NoName} :
            UploadStart(s, p, exists, file_name)
    \/ \E s \in Sessions, len \in ChunkLengths : UploadChunk(s, len)

\* Each session uploads one file to the article; the requests overlap freely.
SpecUpload == InitUpload /\ [][NextUpload]_vars

\* The site when the invited person follows the link: nothing of the site
\* matters but the invited account, a normal or a Wikidot one.
InitInvite ==
    /\ roleSet = RoleIds
    /\ slug = DefaultSlug
    /\ index = [r \in RoleIds |->
            CASE r = "A" -> 0 [] r = "B" -> 1 [] r = "E" -> 2 [] OTHER -> 3]
    /\ permissions = DefaultPermissions
    /\ restrictions = DefaultRestrictions
    /\ userRoles = [u \in Users |-> {}]
    /\ isSuperuser = [u \in Users |-> FALSE]
    /\ isActive = [u \in Users |-> TRUE]
    /\ staff = {}
    /\ overrides = NoOverrides
    /\ form = IdleForms
    /\ posted = NoPost
    /\ article = InstalledArticle
    /\ upload = [s \in Sessions |-> [pc |-> "idle"]]
    /\ files = {}
    /\ disk = [s \in Sessions |-> NoFile]
    /\ signup = [s \in Sessions |-> [pc |-> "idle"]]
    /\ usedTokens = {}
    /\ account \in {InvitedAccount(type) : type \in UserTypes}
    /\ loggedIn = [s \in Sessions |-> FALSE]
    /\ last = NoOp

NextInvite ==
    \/ \E s \in Sessions, token \in Tokens, checked \in BOOLEAN :
          InviteGet(s, token, checked)
    \/ \E s \in Sessions, token \in Tokens, checked \in BOOLEAN,
          username \in Usernames, password1, password2 \in Passwords :
            InvitePost(s, token, checked, username, password1, password2)
    \/ \E s \in Sessions : InviteSave(s)
    \/ \E s \in Sessions : InviteMarkUsed(s)

\* Browsers follow the invitation link, each request served on its own.
SpecInvite == InitInvite /\ [][NextInvite]_vars

\* ------------------------------------------------------------------ claims
\* C1: for an existing user the user-edit guard lets an admin through exactly
\* when the admin is a superuser or has a strictly lower operation index than
\* the target; with equal index (the admin's own record included) the edit is
\* refused, and a refused edit is one the guard rejects.
C1_UserGuard ==
    /\ \A actor \in Users, target \in Users :
        /\ UserHasChangePermission(actor, target)
              => (isSuperuser[actor]
                    \/ operation_index(actor) < operation_index(target))
        /\ (BaseModelPermission(actor)
              /\ (isSuperuser[actor]
                    \/ operation_index(actor) < operation_index(target)))
              => UserHasChangePermission(actor, target)
        /\ (~isSuperuser[actor]
              /\ operation_index(actor) = operation_index(target))
              => ~UserHasChangePermission(actor, target)
    /\ (last.op = "user_change" /\ ~last.ok)
          => ~UserHasChangePermission(last.actor, last.target)

\* A staff admin holding a role was refused the edit of a peer of equal index.
C1_Witness ==
    /\ last.op = "user_change" /\ ~last.ok
    /\ last.actor # last.target
    /\ ~isSuperuser[last.actor] /\ BaseModelPermission(last.actor)
    /\ userRoles[last.actor] # {}
    /\ operation_index(last.actor) = operation_index(last.target)

C6_ProtectedRolesPersist ==
    /\ {"E", "R"} \subseteq roleSet
    /\ slug["E"] = "everyone"
    /\ slug["R"] = "registered"
    /\ (last.op = "role_delete" /\ last.target \in {"E", "R"}) => ~last.ok

\* A superuser asked to delete the role everyone and was refused.
C6_Witness ==
    /\ last.op = "role_delete" /\ ~last.ok
    /\ last.target = "E"
    /\ isSuperuser[last.actor]

\* C7: a user without assigned roles has an operation index above the rank
\* of every role, so every non-superuser staff admin holding a role passes the
\* user-edit guard for that user.
C7_RankSentinel ==
    \A u \in Users :
        userRoles[u] = {} =>
            /\ \A r \in roleSet : index[r] < operation_index(u)
            /\ \A a \in Users :
                  (~isSuperuser[a] /\ BaseModelPermission(a) /\ userRoles[a] # {})
                      => UserHasChangePermission(a, u)

\* A non-superuser admin without manage_roles saved the form of a user who
\* holds no role.
C7_Witness ==
    /\ last.op = "user_change" /\ last.ok
    /\ ~isSuperuser[last.actor]
    /\ userRoles[last.actor] # {}
    /\ ~HasPermission(last.actor, "manage_roles", NoCategory)
    /\ userRoles[last.target] = {}

\* C3: without a category scope, a principal one of whose effective roles
\* denies a capability does not have it, whatever the other roles allow; an
\* evaluation returns what the stores say.
C3_DenyOverridesAllow ==
    /\ \A p \in Principals, cap \in Registry :
          (\E r \in EffectiveRoles(p) : cap \in restrictions[r])
              => ~HasPermission(p, cap, NoCategory)
    /\ (last.op = "has_perm" /\ last.cat = NoCategory)
          => (last.result = HasPermission(last.principal, last.cap, NoCategory))

\* An unscoped evaluation returned false for a principal with one role that
\* allows the capability and another that denies it.
C3_Witness ==
    /\ last.op = "has_perm" /\ last.cat = NoCategory /\ ~last.result
    /\ \E r1, r2 \in EffectiveRoles(last.principal) :
          /\ r1 # r2
          /\ last.cap \in permissions[r1]
          /\ last.cap \in restrictions[r2]

\* The override rows category c holds for role r allow / deny cap.
OverrideAllows(r, c, cap) == \E o \in OverrideRows(r, c) : cap \in o.allow
OverrideDenies(r, c, cap) == \E o \in OverrideRows(r, c) : cap \in o.deny

\* C4: in a category that holds an override for a role, only the override's
\* sets count for that role: a denial in the override refuses, a global grant
\* of an overridden role grants nothing, a global denial of an overridden
\* role refuses nothing; where no role of the principal is overridden the
\* result is that of the global sets.
C4_OverrideReplaces ==
    \A p \in Principals, cap \in Registry, c \in Categories :
        /\ (\E r \in EffectiveRoles(p) : OverrideDenies(r, c, cap))
              => ~HasPermission(p, cap, c)
        /\ (\A r \in EffectiveRoles(p) :
                IF OverrideRows(r, c) # {}
                THEN ~OverrideAllows(r, c, cap)
                ELSE cap \notin permissions[r])
              => ~HasPermission(p, cap, c)
        /\ ((\E r \in EffectiveRoles(p) :
                IF OverrideRows(r, c) # {}
                THEN OverrideAllows(r, c, cap)
                ELSE cap \in permissions[r])
            /\ (\A r \in EffectiveRoles(p) :
                IF OverrideRows(r, c) # {}
                THEN ~OverrideDenies(r, c, cap)
                ELSE cap \notin restrictions[r]))
              => HasPermission(p, cap, c)
        /\ (\A r \in EffectiveRoles(p) : OverrideRows(r, c) = {})
              => (HasPermission(p, cap, c) <=> HasPermission(p, cap, NoCategory))

\* An evaluation scoped to a category whose override denies edit_articles for
\* a role that allows it globally returned false, while a category without
\* that override grants it.
C4_Witness ==
    /\ last.op = "has_perm" /\ last.cap = "edit_articles" /\ ~last.result
    /\ last.cat \in Categories
    /\ \E r \in EffectiveRoles(last.principal), c2 \in Categories :
          /\ "edit_articles" \in permissions[r]
          /\ OverrideDenies(r, last.cat, "edit_articles")
          /\ OverrideRows(r, c2) = {}
          /\ HasPermission(last.principal, "edit_articles", c2)

\* C5: a capability that no effective role of the principal allows or denies,
\* in the scope asked for, is refused.
C5_FailClosed ==
    /\ \A p \in Principals, cap \in Registry, c \in Categories \cup {NoCategory} :
          (\A r \in EffectiveRoles(p) :
                cap \notin EffectiveAllowed(r, c) /\ cap \notin EffectiveDenied(r, c))
              => ~HasPermission(p, cap, c)
    /\ last.op = "has_perm"
          => (last.result = HasPermission(last.principal, last.cap, last.cat))

\* An evaluation of a registered capability that no role of the principal
\* mentions returned false.
C5_Witness ==
    /\ last.op = "has_perm" /\ ~last.result
    /\ last.cap \in Registry
    /\ \A r \in EffectiveRoles(last.principal) :
          /\ last.cap \notin EffectiveAllowed(r, last.cat)
          /\ last.cap \notin EffectiveDenied(r, last.cat)

\* The last request was a category form with the given kind of submission
\* map and both role lists empty.
PostedOnlySubmissions(empty) ==
    /\ last.op = "category_post"
    /\ (DOMAIN last.roles_data = {}) = empty
    /\ last.add = {}
    /\ last.remove = {}

C9_FullReplace ==
    PostedOnlySubmissions(FALSE) =>
        /\ OverriddenRoles(last.cat) = DOMAIN last.roles_data
        /\ \A r \in DOMAIN last.roles_data :
              /\ OverrideCount(r, last.cat) = 1
              /\ \A o \in OverrideRows(r, last.cat) :
                    /\ o.allow = last.roles_data[r].allow
                    /\ o.deny = last.roles_data[r].deny
        /\ \A r \in last.hadBefore \ DOMAIN last.roles_data :
              OverrideCount(r, last.cat) = 0

\* A non-empty submission map that leaves out a role with an override was
\* saved.
C9_Witness ==
    /\ PostedOnlySubmissions(FALSE)
    /\ last.hadBefore \ DOMAIN last.roles_data # {}

\* C10: a category holds at most one override row per role.
C10_OneOverridePerRole ==
    \A c \in Categories, r \in RoleIds : OverrideCount(r, c) <= 1

\* C11: the globally allowed and the globally denied set of every role are
\* disjoint, whatever lists the role forms saved.
C11_AllowedDeniedDisjoint ==
    \A r \in roleSet : permissions[r] \cap restrictions[r] = {}

\* C12: a saved edit of a user by an actor who is not a superuser leaves the
\* target's superuser flag as stored, whatever was submitted; a flag changes
\* only in the edit of that user by a superuser.
C12_SuperuserFlagFrame ==
    [][/\ (last'.op = "user_change" /\ last'.ok /\ ~isSuperuser[last'.actor])
            => isSuperuser'[last'.target] = isSuperuser[last'.target]
       /\ \A u \in Users :
            isSuperuser'[u] # isSuperuser[u]
                => /\ last'.op = "user_change"
                   /\ last'.target = u
                   /\ isSuperuser[last'.actor]]_vars

\* An admin who is not a superuser saved the form of a user with the
\* superuser box ticked; the submitted flag was not stored and the user is no
\* superuser.
C12_Witness ==
    /\ last.op = "user_change" /\ last.ok
    /\ ~isSuperuser[last.actor]
    /\ "is_superuser" \in last.discarded
    /\ ~isSuperuser[last.target]

\* C13: a saved edit of a user by an actor without manage_roles leaves the
\* target's assigned roles as stored, whatever roles were submitted.
C13_RolesFrame ==
    [][(/\ last'.op = "user_change" /\ last'.ok
        /\ ~HasPermission(last'.actor, "manage_roles", NoCategory))
            => userRoles'[last'.target] = userRoles[last'.target]]_vars

\* An admin without manage_roles saved the form of a user with a role set
\* other than the one the user holds, and the submitted set was not stored.
C13_Witness ==
    /\ last.op = "user_change" /\ last.ok
    /\ ~HasPermission(last.actor, "manage_roles", NoCategory)
    /\ "roles" \in last.discarded

\* The request of session s only replaces the overrides: a non-empty
\* submission map and empty role lists.
OnlyReplaces(s) ==
    /\ DOMAIN form[s].roles_data # {}
    /\ form[s].add = {}
    /\ form[s].remove = {}

C16_LastWriterWins ==
    \A s1, s2 \in Sessions :
        (/\ s1 # s2
         /\ last.op = "tx_commit" /\ last.session = s2
         /\ form[s1].pc = "done" /\ form[s2].pc = "done"
         /\ form[s1].cat = form[s2].cat
         /\ OnlyReplaces(s1) /\ OnlyReplaces(s2)
         /\ \A s \in Sessions \ {s1, s2} : form[s].pc = "idle")
            => Unstamped(overrides[form[s2].cat]) = SubmittedRows(form[s2].roles_data)

\* C17: a codename outside the registry is refused for every principal and
\* every scope, and an evaluation asked for one returns false as its result.
C17_UnknownCodenameDenied ==
    /\ \A p \in Principals, c \in Categories \cup {NoCategory} :
          ~HasPermission(p, UnknownCodename, c)
    /\ (last.op = "has_perm" /\ last.cap \notin Registry) => last.result = FALSE

\* An evaluation of an unknown codename returned false for a principal who
\* holds registered capabilities in that scope.
C17_Witness ==
    /\ last.op = "has_perm" /\ last.cap = UnknownCodename
    /\ last.result = FALSE
    /\ \E cap \in Registry : HasPermission(last.principal, cap, last.cat)

\* The stores the evaluations read.
ReadStores == <<roleSet, slug, index, permissions, restrictions, userRoles,
                isSuperuser, overrides>>

\* C18: an evaluation of a permission or of an edit guard, whatever its
\* arguments and its result, leaves the roles, the overrides and the role
\* assignments as they were, and returns what the stores say.
C18_PureReads ==
    [][/\ last'.op \in {"has_perm", "can_manage_user", "can_manage_role"}
            => ReadStores' = ReadStores
       /\ last'.op = "can_manage_user"
            => last'.result = UserHasChangePermission(last'.actor, last'.target)
       /\ last'.op = "can_manage_role"
            => last'.result = RoleHasChangePermission(last'.actor, last'.target)]_vars

\* The user-edit guard was evaluated for an admin and a less privileged
\* user and let the admin through, in a site that holds overrides.
C18_Witness ==
    /\ last.op = "can_manage_user" /\ last.result
    /\ last.target # NoUser
    /\ userRoles[last.target] # {}
    /\ \E c \in Categories : overrides[c] # EmptyBag

\* The capability each guarded operation asks for.
GuardCapability(kind) ==
    CASE kind = "article_create" -> "create_articles"
      [] kind = "article_delete" -> "delete_articles"
      [] kind = "version_revert" -> "edit_articles"
      [] kind = "votes_reset" -> "reset_article_votes"
      [] kind \in FileOps -> "manage_article_files"
      [] kind \in ArticleNotificationOps -> "view_articles"
      [] OTHER -> "view_forum_threads"

\* The request got as far as the permission check of its operation: a valid
\* create, a valid subscription request for a target that exists, or any
\* other request for an article that exists.
GuardReached ==
    CASE last.kind = "article_create" -> last.valid
      [] last.kind \in ArticleNotificationOps \cup ThreadNotificationOps
            -> last.valid /\ last.exists
      [] OTHER -> last.exists

C20_ImplicitRolesNeverAssigned ==
    \A u \in Users :
        userRoles[u] \cap (RolesWithSlug("everyone") \cup RolesWithSlug("registered"))
            = {}

\* An admin with manage_roles saved the form of a user and the submitted
\* roles were stored.
C20_Witness ==
    /\ last.op = "user_change" /\ last.ok
    /\ HasPermission(last.actor, "manage_roles", NoCategory)
    /\ "roles" \notin last.discarded
    /\ userRoles[last.target] # {}

\* C21: a non-superuser admin deletes a role only when the admin's operation
\* index is strictly below the role's rank.
C21_DeleteGuarded ==
    [][(/\ last'.op = "role_delete" /\ last'.ok
        /\ ~isSuperuser[last'.actor])
          => operation_index(last'.actor) < index[last'.target]]_vars

\* The guarded fields of the user form the actor may not change.
DisallowedFields(actor) ==
    {f \in {"is_superuser"} : ~isSuperuser[actor]}
        \cup {f \in {"roles"} : ~HasPermission(actor, "manage_roles", NoCategory)}

\* C22: a user form that passed the record guard is saved even when it holds
\* a change the actor may not make: each disallowed field keeps its stored
\* value, and every other field is stored as posted.
C22_PartialRevert ==
    [][(last'.op = "user_change" /\ UserHasChangePermission(last'.actor, last'.target))
          => LET a == last'.actor
                 t == last'.target
             IN  /\ last'.ok
                 /\ isSuperuser'[t] = IF "is_superuser" \in DisallowedFields(a)
                                      THEN isSuperuser[t]
                                      ELSE posted'.is_superuser
                 /\ userRoles'[t] = IF "roles" \in DisallowedFields(a)
                                    THEN userRoles[t]
                                    ELSE posted'.roles
                 /\ isActive'[t] = posted'.is_active]_vars

\* A non-superuser admin who manages roles posted a form that changed the
\* superuser flag, the roles and the active flag of a user: the flag was
\* discarded, the roles and the active flag were stored.
C22_Witness ==
    /\ last.op = "user_change" /\ last.ok
    /\ last.discarded = {"is_superuser"}
    /\ posted.is_superuser /\ ~isSuperuser[last.target]
    /\ posted.roles # {} /\ userRoles[last.target] = posted.roles
    /\ ~posted.is_active /\ ~isActive[last.target]

\* The override rows of role r in bag b, without the other roles' rows.
RowsOf(b, r) == [o \in {x \in BagToSet(b) : x.role = r} |-> b[o]]

\* C23: after a category form is saved, no role of its remove list holds an
\* override in the category, also when the form submitted override data for
\* that role; every other role holds what the rest of the form set: the
\* submitted row, a fresh empty row when added, nothing when a non-empty
\* submission map left it out, and otherwise the rows it had.
C23_RemoveWins ==
    [][last'.op = "category_post"
          => LET c == last'.cat
                 rd == last'.roles_data
             IN  \A r \in RoleIds :
                    IF r \in last'.remove
                    THEN RowsOf(overrides'[c], r) = EmptyBag
                    ELSE RowsOf(overrides'[c], r) =
                            IF r \in DOMAIN rd
                            THEN SetToBag({[role |-> r,
                                            allow |-> rd[r].allow \cap Registry,
                                            deny |-> rd[r].deny \cap Registry]})
                            ELSE IF r \in last'.add
                            THEN SetToBag({[role |-> r, allow |-> {}, deny |-> {}]})
                            ELSE IF DOMAIN rd # {}
                            THEN EmptyBag
                            ELSE RowsOf(overrides[c], r)]_vars

\* A form that both submitted override data for a role and listed it for
\* removal was saved, and another role of the category kept its override.
C23_Witness ==
    /\ last.op = "category_post"
    /\ last.remove \cap DOMAIN last.roles_data # {}
    /\ \E r \in RoleIds \ last.remove : OverrideCount(r, last.cat) > 0

\* C24: a user form saved by a non-superuser admin gives its target no role
\* ranked at or above the admin's own operation index.
C24_NoEscalation ==
    [][(/\ last'.op = "user_change" /\ last'.ok
        /\ ~isSuperuser[last'.actor])
          => \A r \in userRoles'[last'.target] \ userRoles[last'.target] :
                operation_index(last'.actor) < index[r]]_vars

\* C25: an article PUT answered with 403 leaves the article as it was.
C25_RefusedPutChangesNothing ==
    [][(last'.op = "article_put" /\ last'.status = 403)
          => article' = article]_vars

\* C26: an article PUT changes the name of the article only for a principal
\* who holds move_articles on the article and on the destination category,
\* whatever the lookup of that category returned.
C26_RenameGuarded ==
    [][(/\ last'.op = "article_put"
        /\ <<article'.cat, article'.name>> # <<article.cat, article.name>>)
          => /\ HasPermission(last'.principal, "move_articles", article.cat)
             /\ HasPermission(last'.principal, "move_articles",
                              last'.data.new_category)]_vars

\* C27: a GET or PUT of the article API answers with the article's content
\* only for a principal who holds view_articles on the article's category.
C27_ContentNeedsView ==
    (last.op \in {"article_get", "article_put"} /\ last.body)
        => HasPermission(last.principal, "view_articles", article.cat)

\* C28: for a principal without view_articles on the category of a page
\* name, a PUT, DELETE, revert, vote reset or file operation on that name is
\* answered with 403, the article being there or not.
C28_NoExistenceDisclosure ==
    (/\ \/ last.op = "article_put"
        \/ last.op = "content" /\ last.kind \in ExistenceOps
     /\ ~HasPermission(last.principal, "view_articles", last.cat))
        => last.status = 403

\* C29: with positive upload limits the File rows never add up to more than
\* MEDIA_UPLOAD_LIMIT or ABSOLUTE_MEDIA_UPLOAD_LIMIT, whatever uploads ran and
\* however they overlapped; an upload that ended with 413 added no File row
\* and left no media file.
C29_UploadLimits ==
    /\ MEDIA_UPLOAD_LIMIT > 0 => SumOfSizes(files) <= MEDIA_UPLOAD_LIMIT
    /\ ABSOLUTE_MEDIA_UPLOAD_LIMIT > 0
          => SumOfSizes(files) <= ABSOLUTE_MEDIA_UPLOAD_LIMIT
    /\ \A s \in Sessions :
          (upload[s].pc = "done" /\ upload[s].status = 413)
              => /\ disk[s] = NoFile
                 /\ ~\E f \in files : f.media = s

\* C30: an invitation token activates the account at most once. A GET or a
\* POST that arrives with a token already marked used ends with the
\* invalid-link error and changes nothing, and a POST never writes the name
\* and password when another POST with the same token has written them.
C30_TokenOnce ==
    [][/\ (last' # last /\ last'.op = "invite_get" /\ is_used(last'.token))
             => last'.result = "invalid_link"
       /\ \A s \in Sessions :
            /\ (signup[s].pc = "idle" /\ signup'[s] # signup[s])
                  => ~is_used(signup'[s].token)
            /\ (signup[s].pc = "idle" /\ last' # last
                  /\ last'.op = "invite_post" /\ last'.session = s
                  /\ is_used(last'.token))
                  => /\ last'.result = "invalid_link"
                     /\ UNCHANGED inviteVars
            /\ (signup[s].pc = "validated" /\ signup'[s].pc = "saved")
                  => /\ ~is_used(signup[s].token)
                     /\ \A t \in Sessions \ {s} :
                           ~(signup[t].pc = "saved"
                               /\ signup[t].token = signup[s].token)]_vars

====
